---- MODULE Spec2Model ----
(***************************************************************************)
(* Model of pkg/util/asyncworker: AsyncWorkers, the per-key single-flight, *)
(* cancel-and-coalesce asynchronous work scheduler.                        *)
(*                                                                         *)
(* Every method that takes aws.workLock (AddWork, completeWork,            *)
(* cleanupWorkStatus) holds it from its first to its last statement, so    *)
(* each is one atomic action.  A dispatched goroutine is a record of       *)
(* `running`: it runs work.Fn outside the lock (pc = "fn"), then waits for *)
(* the lock to run completeWork (pc = "complete").                         *)
(*                                                                         *)
(* Two more components are modelled, each under a specification of its own *)
(* in which the scheduler stays in its initial state: MetaCacheImp of      *)
(* pkg/agent/sysadvisor/metacache (MetaCacheSpec) and spdManager of        *)
(* pkg/metaserver/spd (SPDSpec).                                           *)
(***************************************************************************)
EXTENDS Integers, Sequences, FiniteSets, TLC

\* Number of valid Works submitted over a run (all keys together).
MaxWorks == 4

\* The work names (keys) callers submit under.
Keys == {"podA", "podB"}

\* A *Work: id names the submission (0 for the nil pointer), fn tells whether
\* work.Fn is non-nil.
NilWork == [id |-> 0, fn |-> FALSE]

\* The nil context.Context / nil context.CancelFunc.
NilCtx == 0

\* The zero time.Time{}.
ZeroTime == 0

VARIABLES
    workStatuses,         \* aws.workStatuses: map[string]*workStatus
    lastUndeliveredWork,  \* aws.lastUndeliveredWork: map[string]*Work
    canceled,             \* the contexts whose cancel function was called
    nextCtx,              \* the next context context.WithCancel allocates
    clock,                \* the value of the next time.Now()
    running,              \* the goroutines launched by `go func() {...}()`
    nextId,               \* the id of the next Work a caller builds
    reaperPc,             \* position of the wait.Until loop of Start
    stopCh,               \* TRUE once stopCh is closed
    crashed,              \* TRUE once the process has exited (Fatalf, panic)
    hist,                 \* per key, the diagnostic log of its transitions
    lastOp                \* the operation that made the last step, its result

\* cleanupWorkStatus taken statement by statement under aws.workLock.
VARIABLES
    workLock,             \* aws.workLock: TRUE while cleanupWorkStatus holds it
    sweepLeft,            \* the keys its range loop has not visited yet
    sweepFrom             \* aws.workStatuses as it was when it took the lock

\* pkg/agent/sysadvisor/metacache: the fields of MetaCacheImp and its callers.
VARIABLES
    podEntries,           \* mc.podEntries: pod UID -> container info
    poolEntries,          \* mc.poolEntries: pool name -> pool info
    regionEntries,        \* mc.regionEntries
    checkpoint,           \* the checkpoint last written by CreateCheckpoint
    podMutex,             \* mc.podMutex: its writer and its readers
    poolMutex,            \* mc.poolMutex
    regionMutex,          \* mc.regionMutex
    mcThreads,            \* per calling goroutine, the operation it is in
    mcFatal               \* TRUE once the Go runtime has aborted the process

\* pkg/metaserver/spd: the fields of spdManager and its callers.
VARIABLES
    spdCache,             \* s.spdCache: the hash of the cached SPD of the key
    lastFetchRemoteTime,  \* s.spdCache: last-fetch timestamp of the key
    mux,                  \* s.mux: the goroutine that holds it
    spdClock,             \* the value of the next time.Now()
    spdCalls,             \* per calling goroutine, the GetSPD call it is in
    fetchLog              \* the last two remote fetch attempts

lockVars == <<workLock, sweepLeft, sweepFrom>>

awVars == <<workStatuses, lastUndeliveredWork, canceled, nextCtx, clock, running,
            nextId, reaperPc, stopCh, crashed, hist, lastOp, lockVars>>

mcVars == <<podEntries, poolEntries, regionEntries, checkpoint, podMutex,
            poolMutex, regionMutex, mcThreads, mcFatal>>

spdVars == <<spdCache, lastFetchRemoteTime, mux, spdClock, spdCalls, fetchLog>>

\* What the operations of the asynchronous work scheduler, each taken as one
\* locked step, never touch.
restVars == <<mcVars, spdVars, lockVars>>

vars == <<awVars, mcVars, spdVars>>

\* &workStatus{}: the zero value AddWork stores for an unknown key.
EmptyStatus ==
    [isNil |-> FALSE, working |-> FALSE, ctx |-> NilCtx, cancelFn |-> NilCtx,
     work |-> NilWork, startedAt |-> ZeroTime]

\* map assignment m[k] = v
Put(m, k, v) == [x \in (DOMAIN m) \cup {k} |-> IF x = k THEN v ELSE m[x]]

\* delete(m, k)
Del(m, k) == [x \in (DOMAIN m) \ {k} |-> m[x]]

\* The empty map made by make(map[string]...).
EmptyMap == [x \in {} |-> 0]

\* validateWork(work): "nil" when the work carries an executable function.
validateWork(work) ==
    IF work = NilWork THEN "invalid work"
    ELSE IF ~work.fn THEN "invalid work"
    ELSE "nil"

\* status.IsWorking()
IsWorking(status) == status.working

\* `status, ok := m[k]; !ok || status == nil`
NoStatus(sts, k) == k \notin DOMAIN sts \/ sts[k].isNil

\* ctx.Err() == context.Canceled, for a context without deadline.
CtxCanceled(cnl, ctx) == ctx \in cnl

\* A contextForWork that forgets `status.work = work` (line 157).
contextForWorkNoWork(sts, cnl, nctx, clk, k, work) ==
    IF work = NilWork \/ NoStatus(sts, k)
    THEN [fatal |-> TRUE, sts |-> sts, nctx |-> nctx, ctx |-> NilCtx]
    ELSE LET fresh == sts[k].ctx = NilCtx \/ CtxCanceled(cnl, sts[k].ctx)
             c == IF fresh THEN nctx ELSE sts[k].ctx
             f == IF fresh THEN nctx ELSE sts[k].cancelFn
         IN [fatal |-> FALSE,
             sts |-> Put(sts, k, [sts[k] EXCEPT !.ctx = c, !.cancelFn = f,
                                               !.working = TRUE,
                                               !.startedAt = clk]),
             nctx |-> IF fresh THEN nctx + 1 ELSE nctx,
             ctx |-> c]

\* A contextForWork that renews the context only when there is none (line
\* 153 without the ctx.Err() test).
contextForWorkReuseCanceled(sts, cnl, nctx, clk, k, work) ==
    IF work = NilWork \/ NoStatus(sts, k)
    THEN [fatal |-> TRUE, sts |-> sts, nctx |-> nctx, ctx |-> NilCtx]
    ELSE LET fresh == sts[k].ctx = NilCtx
             c == IF fresh THEN nctx ELSE sts[k].ctx
             f == IF fresh THEN nctx ELSE sts[k].cancelFn
         IN [fatal |-> FALSE,
             sts |-> Put(sts, k, [sts[k] EXCEPT !.ctx = c, !.cancelFn = f,
                                               !.working = TRUE, !.work = work,
                                               !.startedAt = clk]),
             nctx |-> IF fresh THEN nctx + 1 ELSE nctx,
             ctx |-> c]

\* A contextForWork that would allocate a context for every dispatch.
contextForWorkAlwaysFresh(sts, cnl, nctx, clk, k, work) ==
    IF work = NilWork \/ NoStatus(sts, k)
    THEN [fatal |-> TRUE, sts |-> sts, nctx |-> nctx, ctx |-> NilCtx]
    ELSE [fatal |-> FALSE,
          sts |-> Put(sts, k, [sts[k] EXCEPT !.ctx = nctx, !.cancelFn = nctx,
                                            !.working = TRUE, !.work = work,
                                            !.startedAt = clk]),
          nctx |-> nctx + 1,
          ctx |-> nctx]

\* contextForWork(workName, work), called under the lock: the fields it
\* leaves in the status table, the context it returns, and whether it hit
\* one of its Fatalf checks.
contextForWork(sts, cnl, nctx, clk, k, work) ==
    IF work = NilWork \/ NoStatus(sts, k)
    THEN [fatal |-> TRUE, sts |-> sts, nctx |-> nctx, ctx |-> NilCtx]
    ELSE LET fresh == sts[k].ctx = NilCtx \/ CtxCanceled(cnl, sts[k].ctx)
             c == IF fresh THEN nctx ELSE sts[k].ctx
             f == IF fresh THEN nctx ELSE sts[k].cancelFn
         IN [fatal |-> FALSE,
             sts |-> Put(sts, k, [sts[k] EXCEPT !.ctx = c, !.cancelFn = f,
                                               !.working = TRUE, !.work = work,
                                               !.startedAt = clk]),
             nctx |-> IF fresh THEN nctx + 1 ELSE nctx,
             ctx |-> c]

\* A resetWorkStatus that would drop the context and the cancel function too.
resetWorkStatusClearCtx(sts, k) ==
    IF NoStatus(sts, k)
    THEN [fatal |-> TRUE, sts |-> sts]
    ELSE [fatal |-> FALSE, sts |-> Put(sts, k, EmptyStatus)]

\* A resetWorkStatus that would leave the working flag set.
resetWorkStatusKeepWorking(sts, k) ==
    IF NoStatus(sts, k)
    THEN [fatal |-> TRUE, sts |-> sts]
    ELSE [fatal |-> FALSE,
          sts |-> Put(sts, k, [sts[k] EXCEPT !.work = NilWork,
                                             !.startedAt = ZeroTime])]

\* resetWorkStatus(workName), called under the lock.
resetWorkStatus(sts, k) ==
    IF NoStatus(sts, k)
    THEN [fatal |-> TRUE, sts |-> sts]
    ELSE [fatal |-> FALSE,
          sts |-> Put(sts, k, [sts[k] EXCEPT !.working = FALSE, !.work = NilWork,
                                             !.startedAt = ZeroTime])]

\* The goroutine `go func() { defer runtime.HandleCrash(); aws.handleWork(ctx,
\* workName, work) }()`, at its start.
Goroutine(k, work, ctx) ==
    [key |-> k, work |-> work, ctx |-> ctx, pc |-> "fn", err |-> "none"]

Event(ev, id) == [ev |-> ev, w |-> id]

Log(h, k, evs) == [h EXCEPT ![k] = @ \o evs]

\* What lastOp holds: the operation, its key and Work, the branch it took and
\* what it returned (for completeWork: the workErr it was given).
Op(op, k, work, branch, ret) ==
    [op |-> op, key |-> k, w |-> work.id, fn |-> work.fn, branch |-> branch,
     ret |-> ret]

(***************************************************************************)
(* Model of pkg/agent/sysadvisor/metacache: MetaCacheImp, three tables     *)
(* each behind its own sync.RWMutex, and the checkpoint storeState writes. *)
(* A pod has one container; a table access has a duration: a goroutine is  *)
(* in the middle of it from the step that enters a pc to the step that     *)
(* leaves it.                                                              *)
(***************************************************************************)

\* The goroutines that call MetaCacheImp.
Threads == {"g1", "g2"}

\* Pod UIDs, pool names, container / pool infos, region tables.
Pods == {"pod1"}

Pools == {"share"}

Infos == {"a", "b"}

Regions == {"r1", "r2"}

\* The operations that take a write lock, and those that take a read lock.
Writers ==
    {"SetContainerInfo", "RemovePod", "SetPoolInfo", "DeletePool",
     "UpdateRegionEntries"}

Readers == {"GetContainerInfo", "GetPoolInfo", "GetRegionInfo"}

\* The calls a goroutine may make.
Calls ==
    [op : {"SetContainerInfo"}, key : Pods, info : Infos]
        \cup [op : {"RemovePod", "GetContainerInfo"}, key : Pods, info : {""}]
        \cup [op : {"SetPoolInfo"}, key : Pools, info : Infos]
        \cup [op : {"DeletePool", "GetPoolInfo"}, key : Pools, info : {""}]
        \cup [op : {"UpdateRegionEntries"}, key : {""}, info : Regions]
        \cup [op : {"GetRegionInfo"}, key : {""}, info : {""}]

\* The table an operation works on, which is the one whose mutex it takes.
TableOf(op) ==
    CASE op \in {"SetContainerInfo", "RemovePod", "GetContainerInfo"} -> "pod"
      [] op \in {"SetPoolInfo", "DeletePool", "GetPoolInfo"} -> "pool"
      [] OTHER -> "region"

\* A goroutine outside MetaCacheImp.
Idle ==
    [op |-> "none", key |-> "", info |-> "", pc |-> "idle", seen |-> "",
     wrote |-> FALSE, ret |-> ""]

\* An unlocked sync.RWMutex.
FreeMutex == [w |-> "none", r |-> {}]

MutexOf(table) ==
    CASE table = "pod" -> podMutex
      [] table = "pool" -> poolMutex
      [] OTHER -> regionMutex

\* The mutex of one table becomes m, the two others stay.
SetMutex(table, m) ==
    /\ podMutex' = IF table = "pod" THEN m ELSE podMutex
    /\ poolMutex' = IF table = "pool" THEN m ELSE poolMutex
    /\ regionMutex' = IF table = "region" THEN m ELSE regionMutex

\* NewMetaCacheImp, lines 131-153: empty tables, restoreState finds no
\* checkpoint and stores one.
MetaCacheInit ==
    /\ podEntries = EmptyMap
    /\ poolEntries = EmptyMap
    /\ regionEntries = ""
    /\ checkpoint = [PodEntries |-> EmptyMap, PoolEntries |-> EmptyMap,
                     RegionEntries |-> ""]
    /\ podMutex = FreeMutex
    /\ poolMutex = FreeMutex
    /\ regionMutex = FreeMutex
    /\ mcThreads = [g \in Threads |-> Idle]
    /\ mcFatal = FALSE

\* The pod table after the write of call c (setContainerInfo lines 262-273,
\* RemovePod lines 337-341).
WrittenPods(c, pods) ==
    CASE c.op = "SetContainerInfo" -> Put(pods, c.key, c.info)
      [] c.op = "RemovePod" -> Del(pods, c.key)
      [] OTHER -> pods

\* The pool table after the write of call c (SetPoolInfo lines 354-358,
\* DeletePool lines 367-371).
WrittenPools(c, pools) ==
    CASE c.op = "SetPoolInfo" -> Put(pools, c.key, c.info)
      [] c.op = "DeletePool" -> Del(pools, c.key)
      [] OTHER -> pools

\* The region table after the write of call c (UpdateRegionEntries line 398).
WrittenRegions(c, regions) ==
    IF c.op = "UpdateRegionEntries" THEN c.info ELSE regions

\* A goroutine calls an operation and gets the mutex of the operation's
\* table: Lock() for a writer, RLock() for a reader.
McCall(g, c) ==
    /\ ~mcFatal
    /\ mcThreads[g].pc = "idle"
    /\ LET table == TableOf(c.op)
           m == MutexOf(table)
       IN IF c.op \in Writers
          THEN /\ m.w = "none" /\ m.r = {}
               /\ SetMutex(table, [m EXCEPT !.w = g])
               /\ mcThreads' = [mcThreads EXCEPT ![g] =
                      [op |-> c.op, key |-> c.key, info |-> c.info,
                       pc |-> "write", seen |-> "", wrote |-> FALSE,
                       ret |-> ""]]
          ELSE /\ m.w = "none"
               /\ SetMutex(table, [m EXCEPT !.r = @ \cup {g}])
               /\ mcThreads' = [mcThreads EXCEPT ![g] =
                      [op |-> c.op, key |-> c.key, info |-> c.info,
                       pc |-> "read", seen |-> "", wrote |-> FALSE,
                       ret |-> ""]]
    /\ UNCHANGED <<podEntries, poolEntries, regionEntries, checkpoint, mcFatal,
                   awVars, spdVars>>

\* A writer that would call storeState whether it changed its table or not.
NeedsStoreAlways(c, pods, pools) == c.op # "UpdateRegionEntries"

\* The writer calls storeState when it changed its table: not when the
\* container info is the one stored (line 269), when the pod (line 338) or
\* the pool (line 367) is absent, and never in UpdateRegionEntries.
NeedsStore(c, pods, pools) ==
    WrittenPods(c, pods) # pods \/ WrittenPools(c, pools) # pools

\* The writer changes its table.  It goes on to storeState when the table
\* changed; it returns at once when there was nothing to change (lines 269,
\* 277, 282, 338, 354, 367) and after UpdateRegionEntries (line 399).
McWrite(g) ==
    /\ ~mcFatal
    /\ mcThreads[g].pc = "write"
    /\ LET c == mcThreads[g]
       IN /\ podEntries' = WrittenPods(c, podEntries)
          /\ poolEntries' = WrittenPools(c, poolEntries)
          /\ regionEntries' = WrittenRegions(c, regionEntries)
          /\ mcThreads' = [mcThreads EXCEPT
                 ![g].pc = IF NeedsStore(c, podEntries, poolEntries)
                           THEN "store" ELSE "unlock",
                 ![g].wrote = \/ WrittenPods(c, podEntries) # podEntries
                              \/ WrittenPools(c, poolEntries) # poolEntries
                              \/ WrittenRegions(c, regionEntries)
                                     # regionEntries,
                 ![g].ret = IF NeedsStore(c, podEntries, poolEntries)
                            THEN "" ELSE "nil"]
    /\ UNCHANGED <<checkpoint, podMutex, poolMutex, regionMutex, mcFatal,
                   awVars, spdVars>>

\* storeState, lines 407-410: the three table fields are copied into the
\* checkpoint object.  The two maps are copied by reference; the region table
\* the checkpoint will hold is the one the field has now.
McStore(g) ==
    /\ ~mcFatal
    /\ mcThreads[g].pc = "store"
    /\ mcThreads' = [mcThreads EXCEPT ![g].pc = "marshal",
                                      ![g].seen = regionEntries]
    /\ UNCHANGED <<podEntries, poolEntries, regionEntries, checkpoint,
                   podMutex, poolMutex, regionMutex, mcFatal, awVars, spdVars>>

\* The goroutines that are writing a map that g, in storeState, reads without
\* holding its mutex.
Racing(g) ==
    {u \in Threads \ {g} :
        /\ mcThreads[u].pc = "write"
        /\ TableOf(mcThreads[u].op) \in {"pod", "pool"}
        /\ TableOf(mcThreads[u].op) # TableOf(mcThreads[g].op)}

\* storeState, line 420: CreateCheckpoint marshals the two maps.  A map that
\* another goroutine is writing meanwhile is read before or after that write,
\* or the Go runtime detects the concurrent map access and aborts.  When
\* CreateCheckpoint fails the error is returned (lines 420-423).
McMarshal(g) ==
    /\ ~mcFatal
    /\ mcThreads[g].pc = "marshal"
    /\ \/ /\ \E pods \in {podEntries} \cup
                    {WrittenPods(mcThreads[u], podEntries) : u \in Racing(g)},
                pools \in {poolEntries} \cup
                    {WrittenPools(mcThreads[u], poolEntries) : u \in Racing(g)} :
                checkpoint' = [PodEntries |-> pods, PoolEntries |-> pools,
                               RegionEntries |-> mcThreads[g].seen]
          /\ mcThreads' = [mcThreads EXCEPT ![g].pc = "unlock", ![g].seen = "",
                                            ![g].ret = "nil"]
          /\ UNCHANGED mcFatal
       \/ /\ mcThreads' = [mcThreads EXCEPT ![g].pc = "unlock", ![g].seen = "",
                                            ![g].ret = "error"]
          /\ UNCHANGED <<checkpoint, mcFatal>>
       \/ /\ Racing(g) # {}
          /\ mcFatal' = TRUE
          /\ UNCHANGED <<checkpoint, mcThreads>>
    /\ UNCHANGED <<podEntries, poolEntries, regionEntries, podMutex, poolMutex,
                   regionMutex, awVars, spdVars>>

\* The deferred Unlock() / RUnlock(); the operation returns.
McReturn(g) ==
    /\ ~mcFatal
    /\ mcThreads[g].pc \in {"unlock", "read"}
    /\ LET table == TableOf(mcThreads[g].op)
           m == MutexOf(table)
       IN SetMutex(table, IF mcThreads[g].pc = "read"
                          THEN [m EXCEPT !.r = @ \ {g}]
                          ELSE [m EXCEPT !.w = "none"])
    /\ mcThreads' = [mcThreads EXCEPT ![g] = Idle]
    /\ UNCHANGED <<podEntries, poolEntries, regionEntries, checkpoint, mcFatal,
                   awVars, spdVars>>

Call == \E g \in Threads, c \in Calls : McCall(g, c)

Write == \E g \in Threads : McWrite(g)

Store == \E g \in Threads : McStore(g)

Marshal == \E g \in Threads : McMarshal(g)

Unlock == \E g \in Threads : McReturn(g)

MetaCacheNext ==
    \/ Call
    \/ Write
    \/ Store
    \/ Marshal
    \/ Unlock

(***************************************************************************)
(* Model of pkg/metaserver/spd: spdManager.GetSPD for one SPD key.  The    *)
(* cache lookup and the target config are read before s.mux is taken;      *)
(* updateSPDCacheIfNeed holds s.mux from its first statement to its        *)
(* return, the remote Get included.  Time passes between any two steps.    *)
(***************************************************************************)

\* The goroutines that call GetSPD.
Callers == {"c1", "c2"}

\* The hashes an SPD and a target config may carry; "" is no SPD / no hash.
Hashes == {"h1", "h2"}

\* s.ServiceProfileCacheTTL, in clock ticks.
ServiceProfileCacheTTL == 2

\* The clock stops at MaxTime.
MaxTime == 5

\* A goroutine outside GetSPD.
IdleCall == [pc |-> "idle", originSPD |-> "", targetHash |-> "", now |-> ZeroTime]

\* NewSPDManager, lines 80-101: an empty cache, no fetch made yet.
SPDInit ==
    /\ spdCache = ""
    /\ lastFetchRemoteTime = ZeroTime
    /\ mux = "none"
    /\ spdClock = ServiceProfileCacheTTL
    /\ spdCalls = [c \in Callers |-> IdleCall]
    /\ fetchLog = <<>>

\* A manager that would not record the time of a fetch attempt.
SetLastFetchRemoteTimeNever(last, now) == last

\* Line 206, s.spdCache.SetLastFetchRemoteTime(key, now).
SetLastFetchRemoteTime(last, now) == now

\* The log keeps the last two attempts.
Logged(log, rec) ==
    IF Len(log) = 2 THEN <<log[2], rec>> ELSE Append(log, rec)

\* getSPDByNamespaceName, lines 138-150: originSPD is read from the cache and
\* the target config from the CNC; when that fails a config without hash is
\* used.
GetSPDRead(c, target) ==
    /\ spdCalls[c].pc = "idle"
    /\ spdCalls' = [spdCalls EXCEPT ![c] =
           [pc |-> "lock", originSPD |-> spdCache, targetHash |-> target,
            now |-> ZeroTime]]
    /\ UNCHANGED <<spdCache, lastFetchRemoteTime, mux, spdClock, fetchLog,
                   awVars, mcVars>>

\* updateSPDCacheIfNeed, lines 191-199: it takes s.mux, reads now, and returns
\* when originSPD carries the target hash.
UpdateLock(c) ==
    /\ spdCalls[c].pc = "lock"
    /\ mux = "none"
    /\ IF \/ spdCalls[c].originSPD = ""
          \/ spdCalls[c].originSPD # spdCalls[c].targetHash
       THEN /\ mux' = c
            /\ spdCalls' = [spdCalls EXCEPT ![c].pc = "check",
                                            ![c].now = spdClock]
       ELSE /\ mux' = mux
            /\ spdCalls' = [spdCalls EXCEPT ![c] = IdleCall]
    /\ UNCHANGED <<spdCache, lastFetchRemoteTime, spdClock, fetchLog,
                   awVars, mcVars>>

\* updateSPDCacheIfNeed, lines 201-211: it returns when the last fetch time
\* plus the TTL is after time.Now(); otherwise it records now as the last fetch
\* time and sends the Get to the API server.
UpdateCheck(c) ==
    /\ spdCalls[c].pc = "check"
    /\ IF lastFetchRemoteTime + ServiceProfileCacheTTL > spdClock
       THEN /\ mux' = "none"
            /\ spdCalls' = [spdCalls EXCEPT ![c] = IdleCall]
            /\ UNCHANGED <<lastFetchRemoteTime, fetchLog>>
       ELSE /\ lastFetchRemoteTime' =
                   SetLastFetchRemoteTime(lastFetchRemoteTime, spdCalls[c].now)
            /\ fetchLog' = Logged(fetchLog,
                   [now |-> spdCalls[c].now, at |-> spdClock,
                    needed |-> \/ spdCalls[c].originSPD = ""
                               \/ spdCalls[c].originSPD
                                      # spdCalls[c].targetHash,
                    res |-> "pending"])
            /\ spdCalls' = [spdCalls EXCEPT ![c].pc = "fetch"]
            /\ mux' = mux
    /\ UNCHANGED <<spdCache, spdClock, awVars, mcVars>>

\* updateSPDCacheIfNeed, lines 212-231: the Get answers with an SPD, with
\* NotFound or with another error; the cache is set, emptied or left alone,
\* and s.mux is released.
UpdateFetched(c, res) ==
    /\ spdCalls[c].pc = "fetch"
    /\ spdCache' = CASE res = "error" -> spdCache
                     [] res = "notfound" -> ""
                     [] OTHER -> res
    /\ fetchLog' = [fetchLog EXCEPT ![Len(fetchLog)].res = res]
    /\ mux' = "none"
    /\ spdCalls' = [spdCalls EXCEPT ![c] = IdleCall]
    /\ UNCHANGED <<lastFetchRemoteTime, spdClock, awVars, mcVars>>

\* Time passes.
Tick ==
    /\ spdClock < MaxTime
    /\ spdClock' = spdClock + 1
    /\ UNCHANGED <<spdCache, lastFetchRemoteTime, mux, spdCalls, fetchLog,
                   awVars, mcVars>>

Read == \E c \in Callers, target \in Hashes \cup {""} : GetSPDRead(c, target)

Lock == \E c \in Callers : UpdateLock(c)

Check == \E c \in Callers : UpdateCheck(c)

Fetched ==
    \E c \in Callers, res \in Hashes \cup {"notfound", "error"} :
        UpdateFetched(c, res)

SPDNext ==
    \/ Read
    \/ Lock
    \/ Check
    \/ Fetched
    \/ Tick

\* The lastOp of the steps that are no call of the scheduler's methods.
Other == Op("other", "", NilWork, "", "")

Init ==
    /\ workStatuses = EmptyMap
    /\ lastUndeliveredWork = EmptyMap
    /\ canceled = {}
    /\ nextCtx = 1
    /\ clock = 1
    /\ running = {}
    /\ nextId = 1
    /\ reaperPc = "none"
    /\ stopCh = FALSE
    /\ crashed = FALSE
    /\ hist = [k \in Keys |-> <<>>]
    /\ lastOp = Op("init", "", NilWork, "", "")
    /\ workLock = FALSE
    /\ sweepLeft = {}
    /\ sweepFrom = EmptyMap
    /\ MetaCacheInit
    /\ SPDInit

\* The process exits (general.Fatalf, or a panic that runtime.HandleCrash
\* raises again): nothing of the scheduler's memory is left.
Exit ==
    /\ crashed' = TRUE
    /\ workStatuses' = EmptyMap
    /\ lastUndeliveredWork' = EmptyMap
    /\ canceled' = {}
    /\ nextCtx' = 1
    /\ clock' = 1
    /\ running' = {}
    /\ nextId' = 1
    /\ reaperPc' = "exit"
    /\ stopCh' = FALSE
    /\ hist' = [k \in Keys |-> <<>>]
    /\ lastOp' = Op("exit", "", NilWork, "", "")
    /\ UNCHANGED restVars

\* A scheduler that dispatches every submission at once, busy key or not.
ShouldDispatchAlways(status) == TRUE

\* Line 47, `if !status.IsWorking()`: the submission is dispatched at once.
ShouldDispatch(status) == ~IsWorking(status)

\* A scheduler that queues instead of overwriting: the first queued work stays.
SetUndeliveredKeepFirst(pend, k, work) ==
    IF k \in DOMAIN pend THEN pend ELSE Put(pend, k, work)

\* Line 81, `aws.lastUndeliveredWork[workName] = work`: always set the most
\* recent work.
SetUndelivered(pend, k, work) == Put(pend, k, work)

\* A scheduler that queues the work without canceling the running execution.
CancelCurrentNone(cnl, status) == cnl

\* status.cancelFn() as it would be if contexts were not per key: every
\* context created up to this one is canceled.
CancelCurrentAll(cnl, status) == cnl \cup (1..status.cancelFn)

\* Line 94, `status.cancelFn()`: the contexts canceled afterwards.
CancelCurrent(cnl, status) == cnl \cup {status.cancelFn}

\* A completeWork that forgets the queued replacement and always resets.
NextWorkNever(pend, k, completedWork, workErr) ==
    [exists |-> FALSE, work |-> NilWork]

\* A completeWork that retries the completed work when it failed and nothing
\* is queued (the TODO of line 114).
NextWorkRetry(pend, k, completedWork, workErr) ==
    IF k \in DOMAIN pend
    THEN [exists |-> TRUE, work |-> pend[k]]
    ELSE IF workErr = "error"
         THEN [exists |-> TRUE, work |-> completedWork]
         ELSE [exists |-> FALSE, work |-> NilWork]

\* Line 125, `work, exists := aws.lastUndeliveredWork[workName]`: the work
\* completeWork dispatches next, if any.  completedWork and workErr are the
\* parameters of completeWork, which this lookup does not read (line 114).
NextWork(pend, k, completedWork, workErr) ==
    IF k \in DOMAIN pend
    THEN [exists |-> TRUE, work |-> pend[k]]
    ELSE [exists |-> FALSE, work |-> NilWork]

\* Lines 39-44: the status table after the lookup-or-create of AddWork.
WithStatus(sts, k) == IF NoStatus(sts, k) THEN Put(sts, k, EmptyStatus) ELSE sts

\* An AddWork that validates the work after the lookup-or-create of the
\* status entry (lines 37-44 before lines 25-29).
AddWorkInvalidLate(k, work) ==
    /\ validateWork(work) # "nil"
    /\ workStatuses' = WithStatus(workStatuses, k)
    /\ lastOp' = Op("AddWork", k, work, "invalid", "error")
    /\ UNCHANGED <<restVars, lastUndeliveredWork, canceled, nextCtx, clock,
                   running, nextId, reaperPc, stopCh, crashed, hist>>

\* AddWork, lines 25-29: validateWork fails, the error is returned.
AddWorkInvalid(k, work) ==
    /\ validateWork(work) # "nil"
    /\ lastOp' = Op("AddWork", k, work, "invalid", "error")
    /\ UNCHANGED <<restVars, workStatuses, lastUndeliveredWork, canceled, nextCtx, clock,
                   running, nextId, reaperPc, stopCh, crashed, hist>>

\* AddWork, lines 37-62: the key is not working, the work is dispatched.
AddWorkDispatch(k, work) ==
    /\ validateWork(work) = "nil"
    /\ LET sts1 == WithStatus(workStatuses, k)
           r == contextForWork(sts1, canceled, nextCtx, clock, k, work)
       IN /\ ShouldDispatch(sts1[k])
          /\ IF r.fatal
             THEN Exit
             ELSE /\ workStatuses' = r.sts
                  /\ nextCtx' = r.nctx
                  /\ clock' = clock + 1
                  /\ running' = running \cup {Goroutine(k, work, r.ctx)}
                  /\ hist' = Log(hist, k, <<Event("add", work.id),
                                            Event("run", work.id)>>)
                  /\ lastOp' = Op("AddWork", k, work, "dispatch", "nil")
                  /\ nextId' = nextId + 1
                  /\ UNCHANGED <<restVars, lastUndeliveredWork, canceled, reaperPc,
                                 stopCh, crashed>>

\* AddWork's busy branch as it would be if it handed the key over to the new
\* work at once instead of waiting for the running one to complete.
AddWorkQueuePreempt(k, work) ==
    /\ validateWork(work) = "nil"
    /\ LET sts1 == WithStatus(workStatuses, k)
           status == sts1[k]
       IN /\ ~ShouldDispatch(status)
          /\ workStatuses' = Put(sts1, k, [status EXCEPT !.work = work,
                                                         !.startedAt = clock])
          /\ running' = (running \ {e \in running : e.key = k})
                            \cup {Goroutine(k, work, status.ctx)}
          /\ hist' = Log(hist, k, <<Event("add", work.id)>>)
          /\ canceled' = CancelCurrent(canceled, status)
          /\ lastOp' = Op("AddWork", k, work, "queue", "nil")
          /\ nextId' = nextId + 1
          /\ clock' = clock + 1
          /\ UNCHANGED <<restVars, lastUndeliveredWork, nextCtx, reaperPc, stopCh,
                         crashed>>

\* AddWork, lines 64-96: the key is working, the work is queued and the
\* running execution's context is canceled.
AddWorkQueue(k, work) ==
    /\ validateWork(work) = "nil"
    /\ LET sts1 == WithStatus(workStatuses, k)
           status == sts1[k]
       IN /\ ~ShouldDispatch(status)
          /\ IF status.cancelFn = NilCtx \/ status.work = NilWork
             THEN Exit
             ELSE /\ workStatuses' = sts1
                  /\ lastUndeliveredWork' =
                         SetUndelivered(lastUndeliveredWork, k, work)
                  /\ hist' = Log(hist, k, <<Event("add", work.id)>>)
                  /\ canceled' = CancelCurrent(canceled, status)
                  /\ lastOp' = Op("AddWork", k, work, "queue", "nil")
                  /\ nextId' = nextId + 1
                  /\ UNCHANGED <<restVars, nextCtx, clock, running, reaperPc, stopCh,
                                 crashed>>

\* AddWork as it would be if it waited for the key's running work function
\* (for instance if handleWork called work.Fn under aws.workLock).
AddWorkWaits(k, work) ==
    /\ ~crashed
    /\ \A e \in running : e.key = k => e.pc # "fn"
    /\ \/ AddWorkInvalid(k, work)
       \/ AddWorkDispatch(k, work)
       \/ AddWorkQueue(k, work)

\* AddWork(workName, work), lines 21-97, one locked step.
AddWork(k, work) ==
    /\ ~crashed
    /\ \/ AddWorkInvalid(k, work)
       \/ AddWorkDispatch(k, work)
       \/ AddWorkQueue(k, work)

\* handleWork, line 106: work.Fn(ctx, ...) returns nil or an error.
FnReturn(e, err) ==
    /\ ~crashed
    /\ e \in running
    /\ e.pc = "fn"
    /\ running' = (running \ {e}) \cup {[e EXCEPT !.pc = "complete", !.err = err]}
    /\ lastOp' = Other
    /\ UNCHANGED <<restVars, workStatuses, lastUndeliveredWork, canceled, nextCtx, clock,
                   nextId, reaperPc, stopCh, crashed, hist>>

\* handleWork, line 106: work.Fn panics.  The panic unwinds handleWork (line
\* 108 is skipped) up to the deferred runtime.HandleCrash of the goroutine
\* (lines 57, 130), which logs it and then re-panics (process exit) or not,
\* depending on runtime.ReallyCrash.
FnPanic(e, reallyCrash) ==
    /\ ~crashed
    /\ e \in running
    /\ e.pc = "fn"
    /\ IF reallyCrash
       THEN Exit
       ELSE /\ running' = running \ {e}
            /\ lastOp' = Op("panic", e.key, e.work, "", "")
            /\ UNCHANGED <<restVars, workStatuses, lastUndeliveredWork, canceled, nextCtx,
                           clock, nextId, reaperPc, stopCh, crashed, hist>>

\* completeWork(workName, completedWork, workErr), lines 113-137, one locked
\* step made by the goroutine whose work.Fn has returned.
completeWork(e) ==
    /\ ~crashed
    /\ e \in running
    /\ e.pc = "complete"
    /\ LET k == e.key
           next == NextWork(lastUndeliveredWork, k, e.work, e.err)
       IN
       IF next.exists
       THEN LET work == next.work
                r == contextForWork(workStatuses, canceled, nextCtx, clock, k, work)
            IN IF r.fatal
               THEN Exit
               ELSE /\ workStatuses' = r.sts
                    /\ nextCtx' = r.nctx
                    /\ clock' = clock + 1
                    /\ running' = (running \ {e}) \cup {Goroutine(k, work, r.ctx)}
                    /\ lastUndeliveredWork' = Del(lastUndeliveredWork, k)
                    /\ hist' = Log(hist, k, <<Event("done", e.work.id),
                                              Event("run", work.id)>>)
                    /\ lastOp' = Op("completeWork", k, e.work, "replace", e.err)
                    /\ UNCHANGED <<restVars, canceled, nextId, reaperPc, stopCh, crashed>>
       ELSE LET r == resetWorkStatus(workStatuses, k)
            IN IF r.fatal
               THEN Exit
               ELSE /\ workStatuses' = r.sts
                    /\ running' = running \ {e}
                    /\ hist' = Log(hist, k, <<Event("done", e.work.id)>>)
                    /\ lastOp' = Op("completeWork", k, e.work, "reset", e.err)
                    /\ UNCHANGED <<restVars, lastUndeliveredWork, nextCtx, clock, canceled,
                                   nextId, reaperPc, stopCh, crashed>>

\* A sweep that would delete every entry, working or not.
SweptAll(sts) == EmptyMap

\* A sweep that would delete nothing.
SweptNone(sts) == sts

\* The status table after the loop of cleanupWorkStatus, lines 187-195.
Swept(sts) ==
    [k \in {x \in DOMAIN sts : ~sts[x].isNil /\ sts[x].working} |-> sts[k]]

\* Start(stopCh), lines 177-180: launches the wait.Until loop.
Start ==
    /\ ~crashed
    /\ reaperPc = "none"
    /\ reaperPc' = "loop"
    /\ lastOp' = Other
    /\ UNCHANGED <<restVars, workStatuses, lastUndeliveredWork, canceled, nextCtx, clock,
                   running, nextId, stopCh, crashed, hist>>

\* The owner of the scheduler closes the stopCh it gave to Start.
CloseStop ==
    /\ ~crashed
    /\ reaperPc # "none"
    /\ ~stopCh
    /\ stopCh' = TRUE
    /\ lastOp' = Other
    /\ UNCHANGED <<restVars, workStatuses, lastUndeliveredWork, canceled, nextCtx, clock,
                   running, nextId, reaperPc, crashed, hist>>

\* wait.Until, line 178: the loop sees stopCh closed and returns.
ReaperExit ==
    /\ ~crashed
    /\ reaperPc = "loop"
    /\ stopCh
    /\ reaperPc' = "exit"
    /\ lastOp' = Other
    /\ UNCHANGED <<restVars, workStatuses, lastUndeliveredWork, canceled, nextCtx, clock,
                   running, nextId, stopCh, crashed, hist>>

\* A loop that would call cleanupWorkStatus without looking at stopCh.
ReaperCallIgnoreStop ==
    /\ ~crashed
    /\ reaperPc = "loop"
    /\ reaperPc' = "sweep"
    /\ lastOp' = Other
    /\ UNCHANGED <<restVars, workStatuses, lastUndeliveredWork, canceled, nextCtx, clock,
                   running, nextId, stopCh, crashed, hist>>

\* wait.Until, line 178, finds stopCh open at the top of its loop and calls
\* cleanupWorkStatus, which now waits for aws.workLock (line 184).
ReaperCall ==
    /\ ~crashed
    /\ reaperPc = "loop"
    /\ ~stopCh
    /\ reaperPc' = "sweep"
    /\ lastOp' = Other
    /\ UNCHANGED <<restVars, workStatuses, lastUndeliveredWork, canceled, nextCtx, clock,
                   running, nextId, stopCh, crashed, hist>>

\* cleanupWorkStatus(), lines 183-196, one locked step; wait.Until then waits
\* for its timer or for stopCh and goes back to the top of its loop.
cleanupWorkStatus ==
    /\ ~crashed
    /\ reaperPc = "sweep"
    /\ workStatuses' = Swept(workStatuses)
    /\ reaperPc' = "loop"
    /\ lastOp' = Op("cleanupWorkStatus", "", NilWork, "", "")
    /\ UNCHANGED <<restVars, lastUndeliveredWork, canceled, nextCtx, clock, running,
                   nextId, stopCh, crashed, hist>>

\* cleanupWorkStatus, lines 184-185: aws.workLock.Lock() succeeds; the range
\* loop of line 187 is about to visit the keys present now.
SweepLock ==
    /\ ~crashed
    /\ reaperPc = "sweep"
    /\ ~workLock
    /\ workLock' = TRUE
    /\ sweepLeft' = DOMAIN workStatuses
    /\ sweepFrom' = workStatuses
    /\ lastOp' = Other
    /\ UNCHANGED <<mcVars, spdVars, workStatuses, lastUndeliveredWork, canceled,
                   nextCtx, clock, running, nextId, reaperPc, stopCh, crashed, hist>>

\* One iteration of the range loop, lines 187-195, in the order the Go map
\* yields its keys: the entry is deleted when it is nil or not working.
SweepVisit(k) ==
    /\ ~crashed
    /\ workLock
    /\ k \in sweepLeft
    /\ workStatuses' = IF k \in DOMAIN workStatuses
                          /\ (workStatuses[k].isNil \/ ~workStatuses[k].working)
                       THEN Del(workStatuses, k)
                       ELSE workStatuses
    /\ sweepLeft' = sweepLeft \ {k}
    /\ lastOp' = Other
    /\ UNCHANGED <<mcVars, spdVars, workLock, sweepFrom, lastUndeliveredWork,
                   canceled, nextCtx, clock, running, nextId, reaperPc, stopCh,
                   crashed, hist>>

\* The range loop is over: the deferred Unlock of line 185 runs and
\* cleanupWorkStatus returns to wait.Until.
SweepUnlock ==
    /\ ~crashed
    /\ workLock
    /\ sweepLeft = {}
    /\ workLock' = FALSE
    /\ reaperPc' = "loop"
    /\ lastOp' = Op("cleanupWorkStatus", "", NilWork, "", "")
    /\ UNCHANGED <<mcVars, spdVars, sweepLeft, sweepFrom, workStatuses,
                   lastUndeliveredWork, canceled, nextCtx, clock, running, nextId,
                   stopCh, crashed, hist>>

\* The Works a caller may pass to AddWork: the nil pointer, a Work without
\* Fn, a Work with Fn.
Submissions ==
    {NilWork, [id |-> nextId, fn |-> FALSE], [id |-> nextId, fn |-> TRUE]}

Submit == \E k \in Keys, work \in Submissions :
              /\ nextId <= MaxWorks
              /\ AddWork(k, work)

Return == \E e \in running, err \in {"nil", "error"} : FnReturn(e, err)

Panic == \E e \in running, reallyCrash \in BOOLEAN : FnPanic(e, reallyCrash)

Complete == \E e \in running : completeWork(e)

Next ==
    \/ Submit
    \/ Return
    \/ Panic
    \/ Complete
    \/ Start
    \/ CloseStop
    \/ ReaperExit
    \/ ReaperCall
    \/ cleanupWorkStatus

Spec == Init /\ [][Next]_vars

\* MetaCacheImp under any interleaving of its callers.
MetaCacheSpec == Init /\ [][MetaCacheNext]_vars

\* GetSPD under any interleaving of its callers and of time.
SPDSpec == Init /\ [][SPDNext]_vars

\* A caller that would enter its critical section without aws.workLock.
LockFreeAlways == TRUE

\* aws.workLock.Lock() of AddWork (line 22) and of completeWork (line 122)
\* returns only while cleanupWorkStatus does not hold the lock.
LockFree == ~workLock

SubmitLocked == LockFree /\ Submit

CompleteLocked == LockFree /\ Complete

Visit == \E k \in Keys : SweepVisit(k)

\* The scheduler with cleanupWorkStatus taken statement by statement.
LockNext ==
    \/ SubmitLocked
    \/ Return
    \/ Panic
    \/ CompleteLocked
    \/ Start
    \/ CloseStop
    \/ ReaperExit
    \/ ReaperCall
    \/ SweepLock
    \/ Visit
    \/ SweepUnlock

LockSpec == Init /\ [][LockNext]_vars

\* The runs in which no work function panics.
NextNoPanic ==
    \/ Submit
    \/ Return
    \/ Complete
    \/ Start
    \/ CloseStop
    \/ ReaperExit
    \/ ReaperCall
    \/ cleanupWorkStatus

\* Every dispatched work function returns, and a goroutine waiting for
\* aws.workLock to run completeWork gets it (sync.Mutex does not starve a
\* waiter).
Fairness ==
    \A k \in Keys :
        /\ WF_vars(\E e \in running, err \in {"nil", "error"} :
                      e.key = k /\ FnReturn(e, err))
        /\ WF_vars(\E e \in running : e.key = k /\ completeWork(e))

LiveSpec == Init /\ [][NextNoPanic]_vars /\ Fairness

\* While the wait.Until loop of Start runs and stopCh is open, its timer
\* fires again and again, and cleanupWorkStatus gets aws.workLock.
ReaperFairness == WF_vars(ReaperCall) /\ WF_vars(cleanupWorkStatus)

ReapSpec == Init /\ [][NextNoPanic]_vars /\ Fairness /\ ReaperFairness

(***************************************************************************)
(* Properties.                                                             *)
(***************************************************************************)

\* The executions of key k in flight: dispatched, not yet through completeWork.
InFlight(k) == {e \in running : e.key = k}

\* The number of ev events among the first n events of key k.
Count(k, ev, n) == Cardinality({i \in 1..n : hist[k][i].ev = ev})

\* An execution of key k was dispatched and had not invoked completeWork when
\* the i-th event of k happened.
BusyAt(k, i) == Count(k, "run", i - 1) > Count(k, "done", i - 1)

\* The Work with this id was dispatched under key k.
Ran(k, id) == \E i \in DOMAIN hist[k] : hist[k][i] = Event("run", id)

\* C1 (single-flight): at most one execution per key is in flight; every
\* dispatch of a key happens when all its earlier executions have invoked
\* completeWork, and is made either by the AddWork that submitted the work
\* (the key was not working) or by the completeWork of the previous execution.
SingleFlight ==
    \A k \in Keys :
        /\ Cardinality(InFlight(k)) <= 1
        /\ \A i \in DOMAIN hist[k] :
              hist[k][i].ev = "run" =>
                  /\ Count(k, "run", i - 1) = Count(k, "done", i - 1)
                  /\ i > 1
                  /\ \/ hist[k][i - 1] = Event("add", hist[k][i].w)
                     \/ hist[k][i - 1].ev = "done"

\* C1 witness: a key on its third execution, with a replacement queued.
SingleFlightWitness ==
    \E k \in Keys :
        /\ Count(k, "run", Len(hist[k])) = 3
        /\ Count(k, "done", Len(hist[k])) = 2
        /\ InFlight(k) # {}
        /\ k \in DOMAIN lastUndeliveredWork

\* The last position before d at which key k has an "add" made while busy with
\* the execution that completes at d; 0 when there is none.
LastQueued(k, d) ==
    LET adds == {i \in 1..(d - 1) :
                    /\ hist[k][i].ev = "add"
                    /\ BusyAt(k, i)
                    /\ \A j \in (i + 1)..(d - 1) : hist[k][j].ev # "done"}
    IN IF adds = {} THEN 0 ELSE CHOOSE i \in adds : \A j \in adds : j <= i

\* C2 (coalescing): a work submitted for a busy key and followed by another
\* submission for that key before the running execution completes never
\* executes; when the execution completes, the replacement dispatched is the
\* last of the works submitted while it ran.
Coalescing ==
    \A k \in Keys :
        /\ \A i, j \in DOMAIN hist[k] :
              ( /\ i < j
                /\ hist[k][i].ev = "add"
                /\ hist[k][j].ev = "add"
                /\ BusyAt(k, i)
                /\ \A m \in (i + 1)..(j - 1) : hist[k][m].ev # "done" )
              => ~Ran(k, hist[k][i].w)
        /\ \A d \in DOMAIN hist[k] :
              (hist[k][d].ev = "done" /\ LastQueued(k, d) # 0)
              => /\ d < Len(hist[k])
                 /\ hist[k][d + 1] = Event("run", hist[k][LastQueued(k, d)].w)
                 /\ Count(k, "run", d + 1) = Count(k, "run", d - 1) + 1

\* C2 witness: W1, W2, W3 were submitted while one execution ran; it has
\* completed and W3 is the replacement in flight.
CoalescingWitness ==
    \E k \in Keys :
        /\ Len(hist[k]) = 7
        /\ hist[k][1].ev = "add" /\ hist[k][2].ev = "run"
        /\ hist[k][3].ev = "add" /\ hist[k][4].ev = "add" /\ hist[k][5].ev = "add"
        /\ hist[k][6] = Event("done", hist[k][1].w)
        /\ hist[k][7] = Event("run", hist[k][5].w)
        /\ \E e \in InFlight(k) : e.work.id = hist[k][5].w
        /\ k \notin DOMAIN lastUndeliveredWork

\* The id of the last Work accepted for key k; 0 when there is none.
LastAdded(k) ==
    LET adds == {i \in DOMAIN hist[k] : hist[k][i].ev = "add"}
    IN IF adds = {} THEN 0
       ELSE hist[k][CHOOSE i \in adds : \A j \in adds : j <= i].w

\* The last Work accepted for key k, if any, has been dispatched.
LatestRan(k) == LastAdded(k) = 0 \/ Ran(k, LastAdded(k))

\* C3 (latest wins): under LiveSpec, whenever a Work has been accepted for a
\* key, whether dispatched at once or queued, the last Work accepted for that
\* key is eventually dispatched.
LatestWins == \A k \in Keys : (LastAdded(k) # 0) ~> LatestRan(k)

\* C3 witness: the last Work accepted for a key was queued behind a running
\* execution, and has been dispatched.
LatestWinsWitness ==
    \E k \in Keys :
        /\ Len(hist[k]) >= 5
        /\ hist[k][Len(hist[k])] = Event("run", LastAdded(k))
        /\ hist[k][Len(hist[k]) - 1].ev = "done"
        /\ nextId > MaxWorks

\* C4 (cancellation signal): when AddWork is called with a valid work for a
\* key whose status is working, it returns success and the context passed to
\* the in-flight execution of that key is canceled when it returns.
CancellationSignal ==
    [][\A k \in Keys :
          ( /\ lastOp'.op = "AddWork" /\ lastOp'.key = k /\ lastOp'.fn
            /\ nextId' # nextId
            /\ ~NoStatus(workStatuses, k) /\ workStatuses[k].working )
          => /\ lastOp'.ret = "nil"
             /\ \A e \in InFlight(k) :
                   e \in running' /\ CtxCanceled(canceled', e.ctx)]_vars

\* C4 witness: AddWork has just queued a work behind an execution whose
\* function is still running, on a context that is now canceled.
CancellationSignalWitness ==
    /\ lastOp.op = "AddWork" /\ lastOp.branch = "queue"
    /\ \E e \in InFlight(lastOp.key) : e.pc = "fn" /\ CtxCanceled(canceled, e.ctx)

\* C5 (immediate dispatch): AddWork with a valid work on a key without status
\* entry or not working marks, in that step, the key working with that work,
\* launches its execution and creates no pending replacement.
ImmediateDispatch ==
    [][\A k \in Keys :
          ( /\ lastOp'.op = "AddWork" /\ lastOp'.key = k /\ lastOp'.fn
            /\ nextId' # nextId
            /\ (NoStatus(workStatuses, k) \/ ~workStatuses[k].working) )
          => /\ lastOp'.ret = "nil"
             /\ ~NoStatus(workStatuses', k)
             /\ workStatuses'[k].working
             /\ workStatuses'[k].work.id = lastOp'.w
             /\ \E e \in running' \ running :
                   /\ e.key = k /\ e.work.id = lastOp'.w /\ e.pc = "fn"
                   /\ e.ctx = workStatuses'[k].ctx
             /\ lastUndeliveredWork' = lastUndeliveredWork
             /\ k \notin DOMAIN lastUndeliveredWork']_vars

\* C5 witness: AddWork has dispatched a work on a key that had completed an
\* earlier execution, in a run where the reaper was never started.
ImmediateDispatchWitness ==
    /\ lastOp.op = "AddWork" /\ lastOp.branch = "dispatch"
    /\ Count(lastOp.key, "done", Len(hist[lastOp.key])) >= 1
    /\ \E e \in InFlight(lastOp.key) : e.work.id = lastOp.w
    /\ reaperPc = "none"

\* The step is the completeWork of execution e.
Completes(e) == e \in running /\ e.pc = "complete" /\ e \notin running' /\ ~crashed'

\* C6 (chained dispatch): completeWork with a replacement queued removes it
\* from the pending table and dispatches it in the same step; the key is
\* working before and after the step.
ChainedDispatch ==
    [][\A e \in running :
          (Completes(e) /\ e.key \in DOMAIN lastUndeliveredWork)
          => LET k == e.key IN
             /\ k \notin DOMAIN lastUndeliveredWork'
             /\ ~NoStatus(workStatuses, k) /\ workStatuses[k].working
             /\ ~NoStatus(workStatuses', k) /\ workStatuses'[k].working
             /\ workStatuses'[k].work = lastUndeliveredWork[k]
             /\ \E n \in running' :
                   n.key = k /\ n.work = lastUndeliveredWork[k] /\ n.pc = "fn"]_vars

\* C6 witness: completeWork has just dispatched a queued replacement.
ChainedDispatchWitness ==
    /\ lastOp.op = "completeWork" /\ lastOp.branch = "replace"
    /\ workStatuses[lastOp.key].working
    /\ lastOp.key \notin DOMAIN lastUndeliveredWork
    /\ reaperPc = "loop"

\* C7: the context handed to a replacement is not canceled when completeWork
\* dispatches it.
ReplacementContextLive ==
    (lastOp.op = "completeWork" /\ lastOp.branch = "replace")
    => /\ InFlight(lastOp.key) # {}
       /\ \A e \in InFlight(lastOp.key) :
             /\ ~CtxCanceled(canceled, e.ctx)
             /\ e.ctx # NilCtx
             /\ e.ctx = workStatuses[lastOp.key].ctx

\* C7 witness: a replacement has just been dispatched while the context of the
\* execution it follows is canceled.
ReplacementContextLiveWitness ==
    /\ lastOp.op = "completeWork" /\ lastOp.branch = "replace"
    /\ canceled # {}
    /\ \E e \in InFlight(lastOp.key) : e.pc = "fn" /\ e.ctx \notin canceled

\* C8 (crash isolation), as claimed: the process survives a panicking work
\* function and no key stays marked working with no execution in flight.
CrashIsolation ==
    /\ ~crashed
    /\ \A k \in DOMAIN workStatuses :
          workStatuses[k].working => InFlight(k) # {}

\* C9 (no retry): whatever the outcome of the completed execution,
\* completeWork dispatches the queued replacement if there is one and resets
\* the status otherwise; the completed work is not dispatched again.
NoRetry ==
    [][\A e \in running :
          Completes(e)
          => LET k == e.key IN
             /\ \A n \in running' : n.work # e.work
             /\ IF k \in DOMAIN lastUndeliveredWork
                THEN /\ lastUndeliveredWork' = Del(lastUndeliveredWork, k)
                     /\ workStatuses'[k].working
                     /\ workStatuses'[k].work = lastUndeliveredWork[k]
                     /\ running' = (running \ {e}) \cup
                           {Goroutine(k, lastUndeliveredWork[k], workStatuses'[k].ctx)}
                ELSE /\ lastUndeliveredWork' = lastUndeliveredWork
                     /\ ~workStatuses'[k].working
                     /\ workStatuses'[k].work = NilWork
                     /\ running' = running \ {e}]_vars

\* C9 witness: an execution that returned an error has gone through
\* completeWork with nothing queued; its key is idle and nothing runs for it.
NoRetryWitness ==
    /\ lastOp.op = "completeWork" /\ lastOp.ret = "error"
    /\ lastOp.branch = "reset"
    /\ ~workStatuses[lastOp.key].working
    /\ InFlight(lastOp.key) = {}

\* C10 (validation error): AddWork with a work that carries no function
\* returns an error and changes nothing of the scheduler.
ValidationError ==
    [][(lastOp'.op = "AddWork" /\ ~lastOp'.fn)
       => /\ lastOp'.ret = "error"
          /\ UNCHANGED <<workStatuses, lastUndeliveredWork, canceled, nextCtx,
                         clock, running, nextId, reaperPc, stopCh, crashed,
                         hist>>]_vars

\* C10 witness: AddWork has just rejected a work for a key that is working on
\* a context that is not canceled.
ValidationErrorWitness ==
    /\ lastOp.op = "AddWork" /\ lastOp.ret = "error"
    /\ lastOp.key \in DOMAIN workStatuses
    /\ workStatuses[lastOp.key].working
    /\ \E e \in InFlight(lastOp.key) : ~CtxCanceled(canceled, e.ctx)

\* C11 (AddWork never blocks on work execution): as long as the process
\* lives, AddWork on any key can take its step and return at once, whatever
\* the work functions in flight are doing: it waits neither for a function to
\* start or finish nor for a canceled one to stop.
NonBlocking ==
    ~crashed =>
        \A k \in Keys :
            ENABLED (/\ AddWork(k, [id |-> nextId, fn |-> TRUE])
                     /\ lastOp'.ret = "nil")

\* C11 witness: AddWork returned nil for a key whose work function, canceled
\* by an earlier AddWork, is still running.
NonBlockingWitness ==
    \E e \in running :
        /\ e.pc = "fn"
        /\ lastOp.op = "AddWork" /\ lastOp.key = e.key /\ lastOp.ret = "nil"
        /\ lastOp.branch = "queue"
        /\ Count(e.key, "add", Len(hist[e.key])) >= 3
        /\ Count(e.key, "run", Len(hist[e.key])) = 1

\* C12: a sweep never removes the entry of a working key: whatever sweeps,
\* AddWorks and completions have been interleaved, every key with an
\* execution in flight has a status entry, and it is working.
WorkingKept ==
    \A k \in Keys :
        InFlight(k) # {} =>
            /\ k \in DOMAIN workStatuses
            /\ ~workStatuses[k].isNil
            /\ workStatuses[k].working

\* C12 witness: a sweep has just removed the entry of a key that had gone
\* idle and kept the entry of a key whose work function is running.
WorkingKeptWitness ==
    /\ lastOp.op = "cleanupWorkStatus"
    /\ \E k1, k2 \in Keys :
          /\ \E e \in InFlight(k1) : e.pc = "fn"
          /\ k1 \in DOMAIN workStatuses
          /\ hist[k2] # <<>>
          /\ k2 \notin DOMAIN workStatuses

\* C13: after a sweep the status table holds only working entries; so a key
\* whose execution completed with nothing queued, and has had no AddWork
\* since, has no entry after the next sweep.
SweepDeletesIdle ==
    lastOp.op = "cleanupWorkStatus" =>
        \A k \in DOMAIN workStatuses :
            ~workStatuses[k].isNil /\ workStatuses[k].working

\* C13 witness: after a sweep, a key whose last event is the completion of
\* its execution has no status entry and the table is empty.
SweepDeletesIdleWitness ==
    /\ lastOp.op = "cleanupWorkStatus"
    /\ DOMAIN workStatuses = {}
    /\ \E k \in Keys :
          /\ hist[k] # <<>>
          /\ hist[k][Len(hist[k])].ev = "done"

\* C14 (WorkStatus invariant): every working status entry has a cancel
\* function and a current work, so the Fatalf checks of AddWork's busy branch
\* (lines 83-87) cannot fire.
WorkingHasCancelAndWork ==
    /\ \A k \in DOMAIN workStatuses :
          workStatuses[k].working =>
              /\ workStatuses[k].cancelFn # NilCtx
              /\ workStatuses[k].work # NilWork
    /\ \A k \in Keys :
          ~ENABLED (/\ ~crashed
                    /\ AddWorkQueue(k, [id |-> nextId, fn |-> TRUE])
                    /\ crashed')

\* C14 witness: AddWork's busy branch has passed its two checks on an entry
\* that completeWork had filled for a replacement.
WorkingHasCancelAndWorkWitness ==
    /\ ~crashed
    /\ lastOp.op = "AddWork" /\ lastOp.branch = "queue"
    /\ workStatuses[lastOp.key].working
    /\ workStatuses[lastOp.key].cancelFn # NilCtx
    /\ workStatuses[lastOp.key].work # NilWork
    /\ Count(lastOp.key, "run", Len(hist[lastOp.key])) >= 2

\* C15 (cancellation is advisory): AddWork with a valid work on a working key
\* changes only the key's pending slot and cancels the key's context: the
\* status table (isWorking, currentWork, startedAt), the executions in flight
\* and the context counter stay as they are and the work is not launched.  A
\* work function is launched for a working key only by the completeWork of
\* that key's own execution.
AdvisoryCancel ==
    [][/\ \A k \in Keys :
             (/\ lastOp'.op = "AddWork" /\ lastOp'.key = k /\ lastOp'.fn
              /\ k \in DOMAIN workStatuses
              /\ workStatuses[k].working
              /\ ~crashed')
             => /\ workStatuses' = workStatuses
                /\ running' = running
                /\ nextCtx' = nextCtx
                /\ clock' = clock
                /\ canceled' = canceled \cup {workStatuses[k].ctx}
                /\ lastUndeliveredWork' =
                       Put(lastUndeliveredWork, k,
                           [id |-> lastOp'.w, fn |-> TRUE])
       /\ \A e \in running' \ running :
             (/\ e.pc = "fn"
              /\ e.key \in DOMAIN workStatuses
              /\ workStatuses[e.key].working)
             => /\ lastOp'.op = "completeWork"
                /\ lastOp'.key = e.key
                /\ \E d \in running \ running' :
                      d.key = e.key /\ d.pc = "complete"]_vars

\* C15 witness: a work function whose context was canceled by an AddWork went
\* on, returned, and only its completeWork has launched the queued work.
AdvisoryCancelWitness ==
    /\ lastOp.op = "completeWork" /\ lastOp.branch = "replace"
    /\ \E e \in InFlight(lastOp.key) :
          /\ e.pc = "fn"
          /\ ~CtxCanceled(canceled, e.ctx)
          /\ workStatuses[lastOp.key].work = e.work
    /\ hist[lastOp.key] = <<Event("add", 1), Event("run", 1), Event("add", 2),
                            Event("done", 1), Event("run", 2)>>

\* C16 (cross-key independence): an AddWork on key k, and the completeWork of
\* an execution of key k, leave the status entry, the pending entry and the
\* executions of every other key as they are, and cancel no context of
\* another key.
CrossKeyIndependence ==
    [][\A k \in Keys :
          (/\ lastOp'.op \in {"AddWork", "completeWork"}
           /\ lastOp'.key = k
           /\ ~crashed')
          => \A j \in Keys \ {k} :
                /\ (j \in DOMAIN workStatuses') = (j \in DOMAIN workStatuses)
                /\ j \in DOMAIN workStatuses
                       => workStatuses'[j] = workStatuses[j]
                /\ (j \in DOMAIN lastUndeliveredWork')
                       = (j \in DOMAIN lastUndeliveredWork)
                /\ j \in DOMAIN lastUndeliveredWork
                       => lastUndeliveredWork'[j] = lastUndeliveredWork[j]
                /\ {e \in running' : e.key = j} = InFlight(j)
                /\ \A e \in InFlight(j) :
                       (e.ctx \in canceled') = (e.ctx \in canceled)
                /\ j \in DOMAIN workStatuses
                       => (workStatuses[j].ctx \in canceled')
                              = (workStatuses[j].ctx \in canceled)]_vars

\* C16 witness: the work functions of two keys run at the same time; an
\* AddWork has just canceled the context of one and not of the other.
CrossKeyIndependenceWitness ==
    /\ lastOp.op = "AddWork" /\ lastOp.branch = "queue"
    /\ \E j \in Keys \ {lastOp.key} :
          /\ \E e \in InFlight(j) : e.pc = "fn" /\ e.ctx \notin canceled
          /\ \E e \in InFlight(lastOp.key) : e.pc = "fn" /\ e.ctx \in canceled
          /\ workStatuses[j].startedAt > workStatuses[lastOp.key].startedAt

\* Key k has neither a status entry nor a pending replacement.
Clean(k) == k \notin DOMAIN workStatuses /\ k \notin DOMAIN lastUndeliveredWork

\* C17 (no bookkeeping leak): under ReapSpec, where submissions are finitely
\* many, every work function returns and completions and sweeps are scheduled
\* fairly, a key that has a status entry while the reaper runs eventually has
\* neither a status entry nor a pending replacement, unless the reaper is
\* stopped first.
NoLeak ==
    \A k \in Keys :
        (k \in DOMAIN workStatuses /\ reaperPc \in {"loop", "sweep"})
            ~> (Clean(k) \/ stopCh)

\* C17 witness: with the reaper running, a key that went through two
\* executions has neither status nor pending entry left.
NoLeakWitness ==
    /\ reaperPc \in {"loop", "sweep"} /\ ~stopCh
    /\ \E k \in Keys :
          /\ Clean(k)
          /\ Count(k, "done", Len(hist[k])) >= 2

\* C18, as claimed: no sweep takes place before Start; once stopCh is closed
\* no sweep starts and no status entry is removed any more.
StopEndsRemoval ==
    [][/\ lastOp'.op = "cleanupWorkStatus" => reaperPc # "none"
       /\ stopCh => ~(reaperPc # "sweep" /\ reaperPc' = "sweep")
       /\ (stopCh /\ ~crashed')
              => DOMAIN workStatuses \subseteq DOMAIN workStatuses']_vars

\* C18, amended: no sweep takes place before Start; once stopCh is closed no
\* sweep starts, and only a sweep that wait.Until had called before the close
\* (and that was waiting for the lock) may still remove idle entries: after
\* it, or if none was under way, no entry is removed.  AddWork and completeWork
\* stay enabled after the stop.
StopEndsSweeps ==
    /\ [](stopCh /\ ~crashed =>
             /\ \A k \in Keys : ENABLED AddWork(k, [id |-> nextId, fn |-> TRUE])
             /\ \A e \in running : e.pc = "complete" => ENABLED completeWork(e))
    /\ [][/\ lastOp'.op = "cleanupWorkStatus"
               => reaperPc = "sweep" /\ reaperPc' = "loop"
          /\ stopCh => ~(reaperPc # "sweep" /\ reaperPc' = "sweep")
          /\ (stopCh /\ reaperPc # "sweep" /\ ~crashed')
                 => DOMAIN workStatuses \subseteq DOMAIN workStatuses']_vars

\* C18 witness: after the stop and the end of the loop, an execution has
\* completed and its idle entry stays in the table.
StopEndsSweepsWitness ==
    /\ stopCh /\ reaperPc = "exit"
    /\ lastOp.op = "completeWork" /\ lastOp.branch = "reset"
    /\ lastOp.key \in DOMAIN workStatuses
    /\ ~workStatuses[lastOp.key].working
    /\ \E k \in Keys : Clean(k) /\ hist[k] # <<>>

(***************************************************************************)
(* Properties of MetaCacheImp.                                             *)
(***************************************************************************)

\* The table accesses goroutine g is in the middle of.
Accesses(g) ==
    LET t == mcThreads[g]
    IN CASE t.pc = "write" -> {[table |-> TableOf(t.op), mode |-> "w"]}
         [] t.pc = "read" -> {[table |-> TableOf(t.op), mode |-> "r"]}
         [] t.pc = "store" -> [table : {"pod", "pool", "region"}, mode : {"r"}]
         [] t.pc = "marshal" -> [table : {"pod", "pool"}, mode : {"r"}]
         [] OTHER -> {}

\* C19 (thread safety), as claimed: every access of a table is made with the
\* mutex of that table held, for writing by a writer, and no table is read by
\* one goroutine while another writes it.
ThreadSafe ==
    /\ \A g \in Threads : \A a \in Accesses(g) :
          \/ MutexOf(a.table).w = g
          \/ a.mode = "r" /\ g \in MutexOf(a.table).r
    /\ \A g, u \in Threads : \A a \in Accesses(g), b \in Accesses(u) :
          (g # u /\ a.table = b.table) => (a.mode = "r" /\ b.mode = "r")

(***************************************************************************)
(* Properties of spdManager.                                               *)
(***************************************************************************)

RemovePodIdempotent ==
    [][\A g \in Threads :
          (/\ mcThreads[g].op = "RemovePod"
           /\ mcThreads[g].pc = "write"
           /\ mcThreads'[g] # mcThreads[g])
          => /\ mcThreads[g].key \notin DOMAIN podEntries'
             /\ mcThreads[g].key \notin DOMAIN podEntries
                    => /\ podEntries' = podEntries
                       /\ checkpoint' = checkpoint
                       /\ mcThreads'[g].pc = "unlock"
                       /\ mcThreads'[g].ret = "nil"]_vars

\* C21 witness: a RemovePod that found no entry is about to return nil; the
\* checkpoint, written by an earlier RemovePod that found the entry, is as it
\* was.
RemovePodIdempotentWitness ==
    \E g \in Threads :
        /\ mcThreads[g].op = "RemovePod" /\ mcThreads[g].pc = "unlock"
        /\ ~mcThreads[g].wrote
        /\ mcThreads[g].ret = "nil"
        /\ podEntries = EmptyMap
        /\ checkpoint.PodEntries = EmptyMap
        /\ checkpoint.PoolEntries # EmptyMap
        /\ poolEntries = EmptyMap

\* C22 (context reuse rule): a dispatched execution gets the context of its
\* key's status entry when the entry has one that is not canceled, and
\* otherwise a context allocated at that moment, which the entry then holds;
\* the context it gets is never a canceled one.
ContextReuse ==
    [][\A e \in running' \ running :
          e.pc = "fn" =>
              LET k == e.key
                  live == /\ k \in DOMAIN workStatuses
                          /\ workStatuses[k].ctx # NilCtx
                          /\ ~CtxCanceled(canceled, workStatuses[k].ctx)
              IN /\ ~CtxCanceled(canceled', e.ctx)
                 /\ workStatuses'[k].ctx = e.ctx
                 /\ workStatuses'[k].cancelFn = e.ctx
                 /\ IF live
                    THEN e.ctx = workStatuses[k].ctx /\ nextCtx' = nextCtx
                    ELSE e.ctx = nextCtx /\ nextCtx' = nextCtx + 1]_vars

\* C22 witness: the second execution of a key runs on the only context ever
\* allocated: its status entry stayed in the table and was never canceled.
ContextReuseWitness ==
    /\ lastOp.op = "AddWork" /\ lastOp.branch = "dispatch"
    /\ nextCtx = 2
    /\ \E e \in InFlight(lastOp.key) :
          /\ e.pc = "fn" /\ e.ctx = 1
          /\ ~CtxCanceled(canceled, e.ctx)
          /\ Count(e.key, "run", Len(hist[e.key])) = 2

\* C23: a key with a pending replacement has a status entry whose context is
\* canceled; so the replacement that completeWork dispatches runs on the
\* context allocated in that step, not on the one of the execution it
\* supersedes.
PendingImpliesCanceled ==
    /\ \A k \in DOMAIN lastUndeliveredWork :
          /\ k \in DOMAIN workStatuses
          /\ workStatuses[k].ctx # NilCtx
          /\ CtxCanceled(canceled, workStatuses[k].ctx)
    /\ (lastOp.op = "completeWork" /\ lastOp.branch = "replace")
          => /\ InFlight(lastOp.key) # {}
             /\ \A e \in InFlight(lastOp.key) :
                   /\ e.ctx = nextCtx - 1
                   /\ ~CtxCanceled(canceled, e.ctx)
                   /\ workStatuses[lastOp.key].ctx = e.ctx

\* C23 witness: completeWork has just dispatched a replacement on a new
\* context while another key has a replacement pending behind an execution
\* whose context is canceled.
PendingImpliesCanceledWitness ==
    /\ lastOp.op = "completeWork" /\ lastOp.branch = "replace"
    /\ \E e \in InFlight(lastOp.key) : e.ctx >= 2 /\ e.ctx \notin canceled
    /\ \E j \in Keys \ {lastOp.key} :
          /\ j \in DOMAIN lastUndeliveredWork
          /\ workStatuses[j].ctx \in canceled
          /\ \E d \in InFlight(j) : d.ctx = workStatuses[j].ctx

\* C24 (reset frame): when an execution goes through completeWork and nothing
\* is pending for its key, the key's status entry stays in the table with
\* isWorking false, currentWork nil and startedAt zero and with the context
\* and cancel function it had; the pending table, the contexts and the
\* entries and executions of the other keys are unchanged.
ResetFrame ==
    [][\A e \in running :
          (Completes(e) /\ e.key \notin DOMAIN lastUndeliveredWork)
          => /\ e.key \in DOMAIN workStatuses
             /\ workStatuses' =
                    Put(workStatuses, e.key,
                        [workStatuses[e.key] EXCEPT !.working = FALSE,
                                                    !.work = NilWork,
                                                    !.startedAt = ZeroTime])
             /\ workStatuses'[e.key].ctx = workStatuses[e.key].ctx
             /\ workStatuses'[e.key].cancelFn = workStatuses[e.key].cancelFn
             /\ running' = running \ {e}
             /\ UNCHANGED <<lastUndeliveredWork, canceled, nextCtx>>]_vars

\* C24 witness: completeWork has reset the entry of a key, which keeps its
\* context; the other key is working with a replacement pending.
ResetFrameWitness ==
    /\ lastOp.op = "completeWork" /\ lastOp.branch = "reset"
    /\ ~workStatuses[lastOp.key].working
    /\ workStatuses[lastOp.key].work = NilWork
    /\ workStatuses[lastOp.key].startedAt = ZeroTime
    /\ workStatuses[lastOp.key].ctx # NilCtx
    /\ workStatuses[lastOp.key].cancelFn = workStatuses[lastOp.key].ctx
    /\ \E j \in Keys \ {lastOp.key} :
          j \in DOMAIN lastUndeliveredWork /\ workStatuses[j].working

\* C25: a pending replacement exists for a key only while the key has a
\* status entry with isWorking true: an AddWork that dispatches leaves none,
\* completeWork deletes it in the step that dispatches it, and a sweep leaves
\* no pending entry without status entry.
PendingOnlyIfWorking ==
    /\ \A k \in DOMAIN lastUndeliveredWork :
          /\ k \in DOMAIN workStatuses
          /\ ~workStatuses[k].isNil
          /\ workStatuses[k].working
    /\ (lastOp.op = "AddWork" /\ lastOp.branch = "dispatch")
          => lastOp.key \notin DOMAIN lastUndeliveredWork
    /\ (lastOp.op = "completeWork" /\ lastOp.branch = "replace")
          => lastOp.key \notin DOMAIN lastUndeliveredWork

\* C25 witness: a sweep has removed the entry of an idle key, which has no
\* pending entry, and kept the working entry of a key with a pending
\* replacement.
PendingOnlyIfWorkingWitness ==
    /\ lastOp.op = "cleanupWorkStatus"
    /\ \E k \in DOMAIN lastUndeliveredWork :
          /\ workStatuses[k].working
          /\ \E j \in Keys \ {k} : hist[j] # <<>> /\ Clean(j)

\* C26: for every execution in flight, the status entry of its key exists, is
\* working, has the executed Work as currentWork and holds the context (and
\* its cancel function) the execution was given.  So completeWork does not
\* hit its missing-status Fatalf, and the cancel of an AddWork reaches the
\* execution in flight.
InFlightMatchesStatus ==
    /\ \A e \in running :
          /\ e.key \in DOMAIN workStatuses
          /\ ~workStatuses[e.key].isNil
          /\ workStatuses[e.key].working
          /\ workStatuses[e.key].work = e.work
          /\ workStatuses[e.key].ctx = e.ctx
          /\ workStatuses[e.key].cancelFn = e.ctx
          /\ e.pc = "complete" => ~ENABLED (completeWork(e) /\ crashed')
    /\ (lastOp.op = "AddWork" /\ lastOp.branch = "queue")
          => \A e \in InFlight(lastOp.key) : CtxCanceled(canceled, e.ctx)

\* C26 witness: a replacement, already superseded and canceled in its turn,
\* has returned and waits for completeWork; the status entry of its key
\* names it and holds its context.
InFlightMatchesStatusWitness ==
    \E e \in running :
        /\ e.pc = "complete"
        /\ e.ctx >= 2
        /\ CtxCanceled(canceled, e.ctx)
        /\ e.key \in DOMAIN lastUndeliveredWork
        /\ workStatuses[e.key].work = e.work
        /\ workStatuses[e.key].ctx = e.ctx

\* C27: the sweep is idempotent and atomic.  With cleanupWorkStatus taken
\* statement by statement, no AddWork and no completeWork happens while it
\* holds aws.workLock: the entries its loop has not visited are as they were
\* when it took the lock, the visited ones are kept exactly when they were
\* working, and when it returns the table is the one the sweep taken as one
\* step makes of the table at the lock, so every interleaving equals the
\* sequence with the whole sweep at that point.  A second sweep of the table
\* it leaves changes nothing.
SweepIdempotentAtomic ==
    ~crashed =>
        /\ lastOp.op = "cleanupWorkStatus" =>
               /\ workStatuses = Swept(sweepFrom)
               /\ Swept(workStatuses) = workStatuses
        /\ workLock =>
               /\ lastOp.op \notin {"AddWork", "completeWork"}
               /\ DOMAIN workStatuses \subseteq DOMAIN sweepFrom
               /\ \A k \in DOMAIN sweepFrom :
                      IF k \in sweepLeft
                      THEN /\ k \in DOMAIN workStatuses
                           /\ workStatuses[k] = sweepFrom[k]
                      ELSE /\ k \in DOMAIN workStatuses
                                <=> k \in DOMAIN Swept(sweepFrom)
                           /\ k \in DOMAIN workStatuses
                                => workStatuses[k] = sweepFrom[k]

\* A sweep has just returned: it deleted an idle entry, kept a working one,
\* and a goroutine was waiting for the lock to run completeWork.
SweepIdempotentAtomicWitness ==
    /\ ~crashed
    /\ lastOp.op = "cleanupWorkStatus"
    /\ workStatuses # sweepFrom
    /\ workStatuses # EmptyMap
    /\ \E e \in running : e.pc = "complete"

\* C28: every Work accepted by AddWork is executed at most once, and every
\* execution launched runs a Work that a successful AddWork submitted earlier
\* under the same key: a dispatch of a key is of a Work accepted before for
\* that key, no Work is dispatched twice or under two keys, and every
\* goroutine in flight runs the valid Work of a logged dispatch of its key.
ExecutedAtMostOnce ==
    \A k \in Keys :
        /\ \A i \in DOMAIN hist[k] :
               hist[k][i].ev = "run" =>
                   /\ \E j \in 1..(i - 1) :
                          hist[k][j] = Event("add", hist[k][i].w)
                   /\ \A j \in DOMAIN hist[k] :
                          hist[k][j] = hist[k][i] => j = i
                   /\ \A k2 \in Keys \ {k} : ~Ran(k2, hist[k][i].w)
        /\ \A i, j \in DOMAIN hist[k] :
               /\ hist[k][i].ev = "add"
               /\ hist[k][j] = hist[k][i]
               => i = j
        /\ \A e \in InFlight(k) : e.work.fn /\ Ran(k, e.work.id)

\* C28 witness: three Works were accepted for one key, of which two were
\* dispatched, the second by completeWork, while the other key ran a Work too.
ExecutedAtMostOnceWitness ==
    \E k \in Keys :
        /\ Count(k, "add", Len(hist[k])) = 3
        /\ Count(k, "run", Len(hist[k])) = 2
        /\ lastOp.op = "completeWork" /\ lastOp.branch = "replace"
        /\ lastOp.key = k
        /\ \E k2 \in Keys \ {k} : Count(k2, "run", Len(hist[k2])) = 1

\* The position in the log of key k at which the Work with this id was
\* accepted.
AddedAt(k, id) == CHOOSE i \in DOMAIN hist[k] : hist[k][i] = Event("add", id)

\* C29: executions of one key respect submission order: of two Works of a key
\* that were both dispatched, the one dispatched first was submitted first,
\* and completeWork was invoked for it before the other was dispatched.
SubmissionOrder ==
    \A k \in Keys :
        \A i, j \in DOMAIN hist[k] :
            /\ i < j
            /\ hist[k][i].ev = "run"
            /\ hist[k][j].ev = "run"
            => /\ AddedAt(k, hist[k][i].w) < AddedAt(k, hist[k][j].w)
               /\ \E d \in (i + 1)..(j - 1) :
                      hist[k][d] = Event("done", hist[k][i].w)

\* C29 witness: two Works of a key were dispatched one after the other, and a
\* Work submitted between them was dropped by coalescing.
SubmissionOrderWitness ==
    \E k \in Keys :
        \E i, j, a \in DOMAIN hist[k] :
            /\ i < j
            /\ hist[k][i].ev = "run"
            /\ hist[k][j].ev = "run"
            /\ hist[k][a].ev = "add"
            /\ AddedAt(k, hist[k][i].w) < a
            /\ a < AddedAt(k, hist[k][j].w)
            /\ ~Ran(k, hist[k][a].w)

\* C30 (no stuck key): under LiveSpec, where work functions are running or
\* return, normally or with an error, every status entry that is working has
\* exactly one execution of its key in flight.
NoStuckKey ==
    \A k \in DOMAIN workStatuses :
        ~workStatuses[k].isNil /\ workStatuses[k].working
            => Cardinality(InFlight(k)) = 1

\* C30 witness: a key went idle after a work function returned an error, was
\* dispatched again, and its running execution has a replacement queued.
NoStuckKeyWitness ==
    \E k \in DOMAIN workStatuses :
        /\ ~workStatuses[k].isNil /\ workStatuses[k].working
        /\ k \in DOMAIN lastUndeliveredWork
        /\ Count(k, "done", Len(hist[k])) = 1
        /\ Count(k, "run", Len(hist[k])) = 2
        /\ hist[k][4].ev = "add"
        /\ \E e \in InFlight(k) : e.pc = "fn"

\* C31 (frame of the sweep): a step of cleanupWorkStatus changes nothing but
\* the status table, from which it removes exactly the nil and the
\* non-working entries: the pending table, the canceled contexts, the next
\* context, the executions in flight and the log are unchanged, and every
\* working entry is kept with all its fields.
SweepFrame ==
    [][(reaperPc = "sweep" /\ reaperPc' = "loop") =>
           /\ lastUndeliveredWork' = lastUndeliveredWork
           /\ canceled' = canceled
           /\ nextCtx' = nextCtx
           /\ running' = running
           /\ hist' = hist
           /\ crashed' = crashed
           /\ DOMAIN workStatuses' \subseteq DOMAIN workStatuses
           /\ \A k \in DOMAIN workStatuses :
                  IF ~workStatuses[k].isNil /\ workStatuses[k].working
                  THEN /\ k \in DOMAIN workStatuses'
                       /\ workStatuses'[k] = workStatuses[k]
                  ELSE k \notin DOMAIN workStatuses']_vars

\* C31 witness: a sweep has just removed the idle entry of one key and kept
\* the working entry of the other, whose execution is canceled and has a
\* replacement pending.
SweepFrameWitness ==
    /\ lastOp.op = "cleanupWorkStatus"
    /\ \E k \in Keys :
           /\ k \notin DOMAIN workStatuses
           /\ Count(k, "done", Len(hist[k])) >= 1
    /\ \E k \in DOMAIN workStatuses :
           /\ workStatuses[k].working
           /\ k \in DOMAIN lastUndeliveredWork
           /\ workStatuses[k].ctx \in canceled
           /\ InFlight(k) # {}

====
